---- MODULE Spec2Model ----
(***************************************************************************)
(* Reminder / scheduling core of pa_agent_be.                              *)
(*                                                                         *)
(* Time is counted in whole seconds from local midnight of day 0           *)
(* (Asia/Kuala_Lumpur has no daylight saving, so a day is 86400 s).        *)
(* The reminder store is the MongoDB collection "reminders"; the job set   *)
(* is the in-memory job store of the APScheduler BackgroundScheduler       *)
(* (tools/scheduler.py:32), which a process restart empties. The daily     *)
(* briefings are tasks in a Cloud Tasks queue.                             *)
(*                                                                         *)
(* The whole system is Spec. Each property is checked under the            *)
(* specification made of the operations it is about: CreateSpec (the two   *)
(* creation paths), ReconcileSpec (reload_reminders on any store),         *)
(* LifecycleSpec (creation, scheduler, job handler, reload, restart),      *)
(* FairSpec (LifecycleSpec under a fair scheduler), DeliverSpec (the two   *)
(* execution handlers and the background send) and DailySpec (the daily    *)
(* briefing chain).                                                        *)
(***************************************************************************)
EXTENDS Integers, Sequences, FiniteSets, TLC

\* ---------------------------------------------------------------- bounds
MaxReminders == 1     \* reminders created in one behaviour
MaxStored == 2        \* reminders in a store that reload_reminders meets
MaxTasks == 2         \* daily tasks queued for one endpoint
MaxDays == 2          \* days the daily chain is followed for
MaxN == 2             \* the number in a duration text
MaxListed == 3        \* reminders in a store that list_reminders reads
MaxEvents == 2        \* events create_event inserts
MaxUsers == 2         \* users in the list of one daily firing
MaxQueued == 4        \* tasks in the assistant queue
MaxSaves == 6         \* save_message_to_history calls for the user
MEMORY_MESSAGE_LIMIT == 2   \* os.getenv("MEMORY_MESSAGE_LIMIT"), 30 when unset
MaxCallers == 2       \* concurrent get_cached_conversation_history calls

\* ------------------------------------------------------ program constants
GRACE_SECONDS == 300
MISFIRE_GRACE_TIME == 300
BUFFER_SECONDS == 1
SecondsPerDay == 86400
NoParse == -1

\* The instants the clock is sampled at: the start, the buffer after it, and
\* the grace period after it with one second either side, so that the
\* boundaries (exactly on it, one second before, one second after) all occur.
Clock == {0, BUFFER_SECONDS, GRACE_SECONDS - 1, GRACE_SECONDS, GRACE_SECONDS + 1}

Statuses == {"scheduled", "sent", "failed", "missed"}
Terminal == {"sent", "failed", "missed"}
Slots == {"job", "http"}
Endpoints == {"today", "tomorrow"}

VARIABLES
    now,         \* wall clock, datetime.now(tz)
    store,       \* reminders_collection: sequence of records, _id = index
    jobs,        \* scheduler job store: ids r with a job "reminder_<r>"
    event_loop,  \* utils.event_loop is set (background loop thread running)
    hproc,       \* the two execution handlers: the invocation on each and
                 \* the send it submitted
    rproc,       \* the reload_reminders invocation
    cproc,       \* the create_*_reminder invocation
    quiet,       \* a reload has returned and nothing else has touched the
                 \* store or the jobs since
    queue,       \* Cloud Tasks: schedule times of the tasks of each endpoint
    dproc,       \* the daily handler invocation of each endpoint
    sched,       \* how the last schedule_daily_task call for each endpoint ended
    lproc,       \* the last list_reminders call: its user, its now, the ids it reports
    calendar,    \* calendar_collection: the events create_event inserted
    uproc,       \* one firing of a daily handler: its users, the user it is at,
                 \* the sends it attempted
    mq,          \* Cloud Tasks "assistant-queue" and what the last
                 \* enqueue_message call returned
    hist,        \* conversation history of one user: the MongoDB document,
                 \* the in-memory fallback, and the messages saved to each
    cc           \* conversation_cache and user_locks for one user, and the
                 \* get_cached_conversation_history calls in progress

xvars == <<calendar, uproc, mq, hist, cc>>
rvars == <<now, store, jobs, event_loop, hproc, rproc, cproc, quiet, queue, dproc, sched,
           lproc>>
dvars == <<queue, dproc, sched, lproc, xvars>>
vars == <<now, store, jobs, event_loop, hproc, rproc, cproc, quiet, queue, dproc, sched,
          lproc, calendar, uproc, mq, hist, cc>>

Ids == 1..Len(store)

IdleH == [pc |-> "idle", rid |-> 0, send |-> "none", wrote |-> "none", result |-> "none",
          to |-> "none"]
IdleR == [pc |-> "idle", now |-> 0, found |-> <<>>, out |-> <<>>, second |-> FALSE]
NoText == [lead |-> "none", n |-> 0, unit |-> "none"]
IdleC == [pc |-> "idle", kind |-> "none", rt |-> NoParse, id |-> 0, result |-> "none",
          quoted |-> NoText]
IdleD == [pc |-> "idle", enqueued |-> 0, result |-> "none"]
IdleL == [user_id |-> 0, now |-> 0, out |-> <<>>]
IdleU == [pc |-> "idle", k |-> "none", users |-> <<>>, i |-> 1, sent |-> <<>>,
          result |-> "none"]
IdleM == [tasks |-> <<>>, ret |-> "none"]
IdleHist == [mongo |-> <<>>, memory |-> <<>>, to_mongo |-> <<>>, to_memory |-> <<>>,
             saved |-> <<>>]
Callers == 1..MaxCallers
IdleG == [pc |-> "idle", lock |-> 0, ret |-> "none"]
IdleCC == [cache |-> "none", lock |-> 0, held |-> {}, call |-> [c \in Callers |-> IdleG]]

\* ---------------------------------------------------------- scheduler API
\* scheduler.get_job(job_id)
get_job(r) == r \in jobs

\* scheduler.add_job(..., id=job_id): the job store keeps one job per id and
\* raises ConflictingIdError for an id it already holds.
add_job_raises(r) == r \in jobs
add_job(r) == jobs \cup {r}

\* ------------------------------------------------------------ time parsing
\* for i, settings in enumerate(parsing_strategies): the first result that is
\* after now breaks the loop; without a break the variable holds the result
\* of the last strategy.
TryStrategies(res, t) ==
    IF res[1] # NoParse /\ res[1] > t THEN res[1]
    ELSE IF res[2] # NoParse /\ res[2] > t THEN res[2]
    ELSE res[3]

DayStart(t) == (t \div SecondsPerDay) * SecondsPerDay

\* Manual fallback for "6pm", "6:30pm", "18:00": m is
\* <<matched, hour, minute, am_pm>>, matched telling whether the regular
\* expression matches the text.
To24h_bad(hour, am_pm) == IF am_pm = "pm" THEN hour + 12 ELSE hour

To24h(hour, am_pm) ==
    IF am_pm = "pm" /\ hour # 12 THEN hour + 12
    ELSE IF am_pm = "am" /\ hour = 12 THEN 0
    ELSE hour

ManualParse(m, t) ==
    IF ~m[1] THEN NoParse
    ELSE LET hour == To24h(m[2], m[4])
             minute == m[3]
         IN  IF hour > 23 \/ minute > 59 THEN NoParse   \* ValueError
             ELSE LET today == DayStart(t) + hour * 3600 + minute * 60
                  IN  IF today <= t THEN today + SecondsPerDay ELSE today

\* The time create_custom_reminder resolves: normalized text, then the
\* original text, then the manual fallback.
ResolveTime(norm, orig, manual, t) ==
    LET r1 == TryStrategies(norm, t)
        r2 == IF r1 = NoParse THEN TryStrategies(orig, t) ELSE r1
    IN  IF r2 = NoParse THEN ManualParse(manual, t) ELSE r2

\* if reminder_time <= now + timedelta(seconds=1): rejected
NotInFuture_bad(rt, t) == rt < t

NotInFuture(rt, t) == rt <= t + BUFFER_SECONDS

\* What dateparser.parse may return at time t: nothing, t itself (not after
\* now), t + 1 s (inside the buffer) when that instant is sampled, or the
\* first sampled instant after the buffer.
Later(t) == {c \in Clock : c > t + BUFFER_SECONDS}
Least(S) == CHOOSE x \in S : \A y \in S : x <= y
ParseResults(t) ==
    {NoParse, t} \cup {c \in Clock : c = t + BUFFER_SECONDS}
                 \cup (IF Later(t) = {} THEN {} ELSE {Least(Later(t))})
Responses(t) == ParseResults(t) \X ParseResults(t) \X ParseResults(t)
NoResponse == <<NoParse, NoParse, NoParse>>
NoManual == <<FALSE, 0, 0, "none">>

\* Texts for the manual fallback: none, "0:05", "12am", "25:00"
ManualInputs ==
    {NoManual, <<TRUE, 0, 5, "none">>, <<TRUE, 12, 0, "am">>, <<TRUE, 25, 0, "none">>}

\* Texts that match the pattern of the manual fallback: "0:05", "12am",
\* "25:00", "6pm", "12pm", "13pm", "6:60"
ClockTexts ==
    {<<TRUE, 0, 5, "none">>, <<TRUE, 12, 0, "am">>, <<TRUE, 25, 0, "none">>,
     <<TRUE, 6, 0, "pm">>, <<TRUE, 12, 0, "pm">>, <<TRUE, 13, 0, "pm">>,
     <<TRUE, 6, 60, "none">>}

\* remind_in texts of the shape [lead] [n] unit: lead is the words before the
\* number ("none" for no such words), n the number (0 for no number).
Units == {"minutes", "hours", "days"}
UnitSeconds(u) ==
    IF u \in {"minutes", "minute"} THEN 60
    ELSE IF u \in {"hours", "hour"} THEN 3600
    ELSE SecondsPerDay
Text(lead, n, unit) == [lead |-> lead, n |-> n, unit |-> unit]
DurationTexts ==
    {Text("in", n, "minutes") : n \in 1..MaxN}
       \cup {Text("none", n, "hours") : n \in 1..MaxN}
       \cup {Text("none", n, "days") : n \in 1..MaxN}
       \cup {Text("none", 1, "mins"), Text("next", 1, "hours"),
             Text("the next", 1, "days"), Text("in", 0, "hour"),
             Text("in", 0, "minute"), Text("none", 0, "soon"),
             Text("next", 0, "soon")}

Normalize_bad(x) == x

\* Lines 145-169: "the next "/"next " become "in ", "mins" becomes
\* "minutes", "in hour"/"in minute" get the number 1, and a text that ends
\* with " minutes", " hours" or " days" gets "in " in front if it has none.
Normalize(x) ==
    LET a == IF x.lead \in {"the next", "next"} THEN [x EXCEPT !.lead = "in"] ELSE x
        b == IF a.unit = "mins" THEN [a EXCEPT !.unit = "minutes"] ELSE a
        c == IF b.lead = "in" /\ b.n = 0 /\ b.unit \in {"hour", "minute"}
             THEN [b EXCEPT !.n = 1] ELSE b
    IN  IF c.unit \in Units /\ c.lead # "in" THEN [c EXCEPT !.lead = "in"] ELSE c

\* dateparser.parse(text, settings={..., "RELATIVE_BASE": now}) under the
\* three settings: "in n unit" is n units after the relative base whatever
\* the preference; the other texts drawn here have no reading.
dateparser_parse(x, t) ==
    IF x.lead = "in" /\ x.n > 0 /\ x.unit \in Units \cup {"hour", "minute"}
    THEN LET r == t + x.n * UnitSeconds(x.unit) IN <<r, r, r>>
    ELSE NoResponse

\* create_event_reminder inputs: event start and minutes_before
MinutesBefore == {0, 5}
EventInputs ==
    {<<ev, mb>> \in Clock \X MinutesBefore : ev - 60 * mb >= 0}
Lookups == {"given", "found", "not_found", "all_day", "auth_required"}

\* ------------------------------------------------------------------- Init
\* The collections and caches outside the reminders, empty at the start.
InitX ==
    /\ calendar = <<>>
    /\ uproc = IdleU
    /\ mq = IdleM
    /\ hist = IdleHist
    /\ cc = IdleCC

Init ==
    /\ now = 0
    /\ store = <<>>
    /\ jobs = {}
    /\ event_loop = FALSE
    /\ hproc = [h \in Slots |-> IdleH]
    /\ rproc = IdleR
    /\ cproc = IdleC
    /\ quiet = FALSE
    /\ queue = [k \in Endpoints |-> <<>>]
    /\ dproc = [k \in Endpoints |-> IdleD]
    /\ sched = [k \in Endpoints |-> "none"]
    /\ lproc = IdleL
    /\ InitX

Free(c) == c.pc \in {"idle", "done"}

\* The user the creation calls are made for and the phone number they are
\* given, and the users of the store.
CallerPhone == "phone_number at creation"
Caller == 1
Users == {Caller, 2}

NewReminder(type, rt, created) ==
    [type |-> type, reminder_time |-> rt, status |-> "scheduled", created_at |-> created,
     user_id |-> Caller, phone_number |-> CallerPhone]

\* ------------------------------------------------ create_custom_reminder
quoted_text_bad(remind_in, remind_in_normalized) == remind_in_normalized

\* Line 268: the text the parse error message shows between quotes.
quoted_text(remind_in, remind_in_normalized) == remind_in

\* Lines 140-289: resolve the time, validate it, insert the record. The
\* result says which return was taken: "parse_error" (line 268),
\* "past_time" (line 273), "exception" (insert_one raised). remind_in and
\* remind_in_normalized are the text given and its normalized form, norm and
\* orig what dateparser answers for them.
create_custom_reminder_of(remind_in, remind_in_normalized, norm, orig, manual) ==
    /\ Free(cproc)
    /\ LET rt == ResolveTime(norm, orig, manual, now)
           c == [IdleC EXCEPT !.kind = "custom", !.rt = rt]
       IN  IF rt = NoParse
           THEN /\ cproc' = [c EXCEPT !.pc = "done", !.result = "parse_error",
                                      !.quoted = quoted_text(remind_in, remind_in_normalized)]
                /\ UNCHANGED <<store, quiet>>
           ELSE IF NotInFuture(rt, now)
           THEN /\ cproc' = [c EXCEPT !.pc = "done", !.result = "past_time"]
                /\ UNCHANGED <<store, quiet>>
           ELSE /\ Len(store) < MaxReminders
                /\ \/ /\ store' = Append(store, NewReminder("custom", rt, now))
                      /\ cproc' = [c EXCEPT !.pc = "inserted", !.id = Len(store) + 1]
                      /\ quiet' = FALSE
                   \/ /\ cproc' = [c EXCEPT !.pc = "done", !.result = "exception"]
                      /\ UNCHANGED <<store, quiet>>
    /\ UNCHANGED <<now, jobs, event_loop, hproc, rproc, dvars>>

\* The call seen through dateparser's answers alone.
create_custom_reminder(norm, orig, manual) ==
    create_custom_reminder_of(NoText, NoText, norm, orig, manual)

\* ------------------------------------------------- create_event_reminder
\* Line 90: reminder_time = event_datetime - timedelta(minutes=minutes_before)
EventReminderTime(ev, mb) == ev - 60 * mb

\* Lines 40-107: auth check, event time (given, or looked up in the
\* calendar), the reminder time, insert the record.
create_event_reminder(ev, mb, lookup) ==
    /\ Free(cproc)
    /\ Len(store) < MaxReminders
    /\ LET rt == EventReminderTime(ev, mb)
           c == [IdleC EXCEPT !.kind = "event"]
       IN  CASE lookup = "auth_required" ->
                  /\ cproc' = [c EXCEPT !.pc = "done", !.result = "exception"]
                  /\ UNCHANGED <<store, quiet>>
             [] lookup \in {"not_found", "all_day"} ->
                  /\ cproc' = [c EXCEPT !.pc = "done", !.result = "error"]
                  /\ UNCHANGED <<store, quiet>>
             [] OTHER ->
                  \/ /\ store' = Append(store, NewReminder("event", rt, now))
                     /\ cproc' = [c EXCEPT !.pc = "inserted", !.rt = rt,
                                           !.id = Len(store) + 1]
                     /\ quiet' = FALSE
                  \/ /\ cproc' = [c EXCEPT !.pc = "done", !.rt = rt, !.result = "exception"]
                     /\ UNCHANGED <<store, quiet>>
    /\ UNCHANGED <<now, jobs, event_loop, hproc, rproc, dvars>>

\* ---------------------------------------------------------- create_event
\* tools/reminder.py line 28: the parameters of create_event_reminder
create_event_reminder_params ==
    {"event_title", "minutes_before", "user_id", "phone_number", "event_date", "event_time"}

\* tools/calendar.py lines 143-149: the keyword arguments create_event
\* calls it with
create_event_kwargs ==
    {"event_title", "event_start_time", "user_id", "phone_number", "minutes_before"}

AUTO_MINUTES_BEFORE == 15

\* tools/calendar.py lines 46-156: the event is inserted; for a timed event
\* of a user with a phone number create_event_reminder is called, and an
\* exception of the call (a TypeError for a keyword the function does not
\* have among them) is printed and dropped. The event is returned.
create_event(start, all_day, phone) ==
    /\ Len(calendar) < MaxEvents
    /\ calendar' = Append(calendar, [start_time |-> start, is_all_day |-> all_day])
    /\ IF ~all_day /\ phone /\ create_event_kwargs \subseteq create_event_reminder_params
       THEN /\ Len(store) < MaxReminders
            /\ store' = Append(store, NewReminder("event",
                                     EventReminderTime(start, AUTO_MINUTES_BEFORE), now))
            /\ jobs' = add_job(Len(store) + 1)
            /\ quiet' = FALSE
       ELSE UNCHANGED <<store, jobs, quiet>>
    /\ UNCHANGED <<now, event_loop, hproc, rproc, cproc, queue, dproc, sched, lproc, uproc,
                   mq, hist, cc>>

\* create_custom_reminder called with a text: the normalized text is parsed
\* first, the original text when that gave nothing; none of these texts
\* matches the pattern of the manual fallback.
create_custom_reminder_text(x) ==
    LET norm == dateparser_parse(Normalize(x), now)
    IN  IF TryStrategies(norm, now) # NoParse
        THEN create_custom_reminder_of(x, Normalize(x), norm, NoResponse, NoManual)
        ELSE create_custom_reminder_of(x, Normalize(x), norm, dateparser_parse(x, now),
                                       NoManual)

\* Lines 109-125 and 291-318: scheduler.add_job, then the success result;
\* add_job raising (for an id the job store holds, or for any other reason)
\* leaves the function as an exception, the record staying as inserted.
create_add_job ==
    /\ cproc.pc = "inserted"
    /\ \/ /\ ~add_job_raises(cproc.id)
          /\ jobs' = add_job(cproc.id)
          /\ cproc' = [cproc EXCEPT !.pc = "done", !.result = "success"]
          /\ quiet' = FALSE
       \/ /\ cproc' = [cproc EXCEPT !.pc = "done", !.result = "exception"]
          /\ UNCHANGED <<jobs, quiet>>
    /\ UNCHANGED <<now, store, event_loop, hproc, rproc, dvars>>

\* ------------------------------------------------------------ the scheduler
Due(r) == store[r].reminder_time <= now
Misfired(r) == now - store[r].reminder_time > MISFIRE_GRACE_TIME

SlotFree(h) == Free(hproc[h]) /\ hproc[h].send # "pending"

\* asyncio.run_coroutine_threadsafe(send_whatsapp_message(...), loop): the
\* coroutine is handed to the background loop and the future is dropped.
SubmitSend == IF event_loop THEN "pending" ELSE "none"

\* --------------------------------------------------------- send_reminder
Recipient_bad(reminder) == "phone_number of the user now"

\* phone_number = reminder["phone_number"]
Recipient(reminder) == reminder.phone_number

\* find_one({"_id": ObjectId(reminder_id)}) gives a document
Found_bad(r) == TRUE

Found(r) == r \in Ids

\* The scheduler runs the job "reminder_<r>" (a date job leaves the job
\* store when it runs). Lines 325-343: find_one; without a document the
\* handler prints and returns; else the send is submitted.
send_reminder_start(r) ==
    /\ r \in jobs
    /\ Due(r) /\ ~Misfired(r)
    /\ SlotFree("job")
    /\ jobs' = jobs \ {r}
    /\ \/ /\ Found(r)
          /\ hproc' = [hproc EXCEPT !["job"] =
                         [IdleH EXCEPT !.pc = "found", !.rid = r, !.send = SubmitSend,
                                       !.to = IF event_loop THEN Recipient(store[r])
                                                            ELSE "none"]]
       \/ /\ ~Found(r)
          /\ hproc' = [hproc EXCEPT !["job"] =
                         [IdleH EXCEPT !.pc = "done", !.rid = r, !.result = "returned"]]
       \/ hproc' = [hproc EXCEPT !["job"] = [IdleH EXCEPT !.pc = "except", !.rid = r]]
    /\ quiet' = FALSE
    /\ UNCHANGED <<now, store, event_loop, rproc, cproc, dvars>>

\* A job later than misfire_grace_time is dropped without running.
misfire(r) ==
    /\ r \in jobs
    /\ Misfired(r)
    /\ jobs' = jobs \ {r}
    /\ quiet' = FALSE
    /\ UNCHANGED <<now, store, event_loop, hproc, rproc, cproc, dvars>>

\* update_one({"_id": id}, {"$set": {"status": s, ...}}): no condition on the
\* status the record has; an id that matches no record updates nothing.
SetStatus(r, s) == IF r \in Ids THEN [store EXCEPT ![r].status = s] ELSE store

\* Lines 345-351: mark the reminder sent; a store error goes to the handler
\* of line 353.
send_reminder_mark_sent ==
    /\ hproc["job"].pc = "found"
    /\ \/ /\ store' = SetStatus(hproc["job"].rid, "sent")
          /\ hproc' = [hproc EXCEPT !["job"].pc = "done", !["job"].wrote = "sent",
                                    !["job"].result = "returned"]
          /\ quiet' = FALSE
       \/ /\ hproc' = [hproc EXCEPT !["job"].pc = "except"]
          /\ UNCHANGED <<store, quiet>>
    /\ UNCHANGED <<now, jobs, event_loop, rproc, cproc, dvars>>

\* Lines 353-359: except Exception: mark the reminder failed.
send_reminder_mark_failed ==
    /\ hproc["job"].pc = "except"
    /\ \/ /\ store' = SetStatus(hproc["job"].rid, "failed")
          /\ hproc' = [hproc EXCEPT !["job"].pc = "done", !["job"].wrote = "failed",
                                    !["job"].result = "returned"]
          /\ quiet' = FALSE
       \/ /\ hproc' = [hproc EXCEPT !["job"].pc = "done", !["job"].result = "exception"]
          /\ UNCHANGED <<store, quiet>>
    /\ UNCHANGED <<now, jobs, event_loop, rproc, cproc, dvars>>

\* ------------------------------------------ POST /reminder/send (router)
\* Lines 16-29: find_one (lookup tells whether it answers or raises),
\* "Reminder not found", else the send is submitted;
\* run_coroutine_threadsafe raises when get_event_loop() gave no loop.
reminder_consumer_start(r, lookup) ==
    /\ SlotFree("http")
    /\ IF lookup = "raises"
       THEN hproc' = [hproc EXCEPT !["http"] =
                        [IdleH EXCEPT !.pc = "done", !.rid = r, !.result = "exception"]]
       ELSE IF ~Found(r)
       THEN hproc' = [hproc EXCEPT !["http"] =
                        [IdleH EXCEPT !.pc = "done", !.rid = r, !.result = "error"]]
       ELSE IF event_loop
       THEN hproc' = [hproc EXCEPT !["http"] =
                        [IdleH EXCEPT !.pc = "found", !.rid = r, !.send = "pending",
                                      !.to = Recipient(store[r])]]
       ELSE hproc' = [hproc EXCEPT !["http"] =
                        [IdleH EXCEPT !.pc = "done", !.rid = r, !.result = "exception"]]
    /\ UNCHANGED <<now, store, jobs, event_loop, rproc, cproc, quiet, dvars>>

\* The ids a request may carry: those of the store and one that is not in it.
RequestIds == 1..(MaxReminders + 1)
FindOutcomes == {"answers", "raises"}

\* Lines 31-36: mark the reminder sent and answer {"status": "success"}.
reminder_consumer_mark_sent ==
    /\ hproc["http"].pc = "found"
    /\ \/ /\ store' = SetStatus(hproc["http"].rid, "sent")
          /\ hproc' = [hproc EXCEPT !["http"].pc = "done", !["http"].wrote = "sent",
                                    !["http"].result = "success"]
          /\ quiet' = FALSE
       \/ /\ hproc' = [hproc EXCEPT !["http"].pc = "done", !["http"].result = "exception"]
          /\ UNCHANGED <<store, quiet>>
    /\ UNCHANGED <<now, jobs, event_loop, rproc, cproc, dvars>>

\* send_whatsapp_message finishes on the background loop: it answers a
\* success result, or an error result (it catches its own exceptions).
send_complete(h, res) ==
    /\ hproc[h].send = "pending"
    /\ hproc' = [hproc EXCEPT ![h].send = res]
    /\ UNCHANGED <<now, store, jobs, event_loop, rproc, cproc, quiet, dvars>>

\* utils._run_bg_loop: the background thread publishes its event loop.
run_bg_loop ==
    /\ ~event_loop
    /\ event_loop' = TRUE
    /\ UNCHANGED <<now, store, jobs, hproc, rproc, cproc, quiet, dvars>>

\* ------------------------------------------------------- reload_reminders
\* Lines 395-409: a reminder whose time has passed by more than the grace
\* period is marked missed and skipped.
PastGrace_bad(rt, t) == rt <= t /\ t - rt >= GRACE_SECONDS

PastGrace(rt, t) == rt <= t /\ t - rt > GRACE_SECONDS

ScheduledFrom_bad(i) == <<>>

\* find({"status": "scheduled", "reminder_time": {"$exists": True}})
RECURSIVE ScheduledFrom(_)
ScheduledFrom(i) ==
    IF i > Len(store) THEN <<>>
    ELSE IF store[i].status = "scheduled" THEN <<i>> \o ScheduledFrom(i + 1)
    ELSE ScheduledFrom(i + 1)

\* Lines 366-384: now is read once, then the query result is loaded (the
\* query raising goes to the handler of line 444).
reload_start ==
    /\ rproc.pc = "idle"
    /\ \/ rproc' = [IdleR EXCEPT !.pc = "loop", !.now = now, !.found = ScheduledFrom(1),
                                 !.second = quiet]
       \/ rproc' = [IdleR EXCEPT !.pc = "failed"]
    /\ UNCHANGED <<now, store, jobs, event_loop, hproc, cproc, quiet, dvars>>

\* The existing-job check of lines 414-418.
SkipExisting_bad(r) == FALSE

SkipExisting(r) == get_job(r)

Current_bad == rproc.found[1]

\* The reminder the loop of line 386 is at.
Current == rproc.found[Len(rproc.out) + 1]

\* Lines 386-435: one pass of the loop body, for the next reminder found.
reload_one ==
    /\ rproc.pc = "loop"
    /\ Len(rproc.out) < Len(rproc.found)
    /\ LET r == Current
           rt == store[r].reminder_time
           done(res) == rproc' = [rproc EXCEPT !.out = Append(@, res)]
       IN  IF PastGrace(rt, rproc.now)
           THEN \/ /\ store' = SetStatus(r, "missed")
                   /\ done("missed")
                   /\ UNCHANGED jobs
                \/ /\ done("error")
                   /\ UNCHANGED <<store, jobs>>
           ELSE IF SkipExisting(r)
           THEN /\ done("exists")
                /\ UNCHANGED <<store, jobs>>
           ELSE IF add_job_raises(r)
           THEN /\ done("error")
                /\ UNCHANGED <<store, jobs>>
           ELSE /\ jobs' = add_job(r)
                /\ done("reloaded")
                /\ UNCHANGED store
    /\ UNCHANGED <<now, event_loop, hproc, cproc, quiet, dvars>>

Count(res) == Cardinality({i \in 1..Len(rproc.out) : rproc.out[i] = res})
reloaded_count == Count("reloaded")
skipped_past_count == Count("missed")
error_count == Count("error")

\* Lines 437-446: the counts are returned (or {"error": ...} when the query
\* raised).
reload_done ==
    /\ \/ /\ rproc.pc = "loop"
          /\ Len(rproc.out) = Len(rproc.found)
          /\ quiet' = TRUE
       \/ /\ rproc.pc = "failed"
          /\ UNCHANGED quiet
    /\ rproc' = IdleR
    /\ UNCHANGED <<now, store, jobs, event_loop, hproc, cproc, dvars>>

\* -------------------------------------------------------- list_reminders
Matches_bad(d, user_id, t) == d.user_id = user_id /\ d.reminder_time >= t

\* {"user_id": user_id, "status": "scheduled", "reminder_time": {"$gte": now}}
Matches(d, user_id, t) ==
    d.user_id = user_id /\ d.status = "scheduled" /\ d.reminder_time >= t

\* .sort("reminder_time", 1): the documents in an order of ascending
\* reminder_time, documents of equal reminder_time in either order.
Sorted(S) ==
    {f \in [1..Cardinality(S) -> S] :
        /\ \A i, j \in DOMAIN f : i # j => f[i] # f[j]
        /\ \A i, j \in DOMAIN f :
              i < j => store[f[i]].reminder_time <= store[f[j]].reminder_time}

\* Lines 448-489: the query and the message made of its documents.
list_reminders(user_id) ==
    /\ \E out \in Sorted({r \in Ids : Matches(store[r], user_id, now)}) :
          lproc' = [user_id |-> user_id, now |-> now, out |-> out]
    /\ UNCHANGED <<now, store, jobs, event_loop, hproc, rproc, cproc, quiet, queue, dproc,
                   sched, xvars>>

\* ------------------------------------------------------------------ time
\* While the process runs the scheduler wakes up for every job when it is
\* due, so the clock does not pass a job's run date with the job unfired.
TickTargets == Clock \cup {store[r].reminder_time : r \in jobs}

Tick(t) ==
    /\ t > now
    /\ \A r \in jobs : store[r].reminder_time >= t
    /\ now' = t
    /\ UNCHANGED <<store, jobs, event_loop, hproc, rproc, cproc, quiet, dvars>>

\* ------------------------------------------------------- process restart
\* main.py:373-379 on a fresh process: start_scheduler() adds the two cron
\* jobs and starts the scheduler; the reminder jobs it registers are none.
start_scheduler == {}

\* The process dies (every invocation in flight with it, and the in-memory
\* job store) and comes up again; with no job left the clock is free to
\* advance, which is the downtime.
Restart ==
    /\ jobs' = start_scheduler
    /\ event_loop' = FALSE
    /\ hproc' = [h \in Slots |-> IdleH]
    /\ rproc' = IdleR
    /\ cproc' = IdleC
    /\ quiet' = FALSE
    /\ UNCHANGED <<now, store, dvars>>

\* ------------------------------------------------------ the daily briefings
\* hour=8, minute=30 and hour=19, minute=30 in the two handlers
TodayAt == [hour |-> 8, minute |-> 30]
TomorrowAt == [hour |-> 19, minute |-> 30]
FireAt(k) == IF k = "today" THEN TodayAt ELSE TomorrowAt
SecondOfDay(hm) == hm.hour * 3600 + hm.minute * 60

\* target_time = now.replace(hour, minute); if target_time <= now: + 1 day
NextOccurrence(hm, t) ==
    LET target == DayStart(t) + SecondOfDay(hm)
    IN  IF target <= t THEN target + SecondsPerDay ELSE target

Remove(s, i) == SubSeq(s, 1, i - 1) \o SubSeq(s, i + 1, Len(s))

\* Lines 64-72: the keys of the task that is handed to create_task.
TaskKeys == {"http_request", "schedule_time"}

\* utils.cloud_tasks.schedule_daily_task puts the first task of a chain in
\* the queue. create_task answers, or raises: for ALREADY_EXISTS the handler
\* reads task["name"] for delete_task before it creates the task again, and
\* a KeyError there is raised again like any other error.
schedule_daily_task(k, outcome) ==
    /\ Len(queue[k]) < MaxTasks
    /\ IF outcome = "ok"
       THEN /\ queue' = [queue EXCEPT ![k] = Append(@, NextOccurrence(FireAt(k), now))]
            /\ sched' = [sched EXCEPT ![k] = "returned"]
       ELSE IF outcome = "ALREADY_EXISTS" /\ "name" \in TaskKeys
       THEN \/ \E i \in 1..Len(queue[k]) :
                 /\ queue' = [queue EXCEPT ![k] =
                                 Append(Remove(@, i), NextOccurrence(FireAt(k), now))]
                 /\ sched' = [sched EXCEPT ![k] = "returned"]
            \/ /\ sched' = [sched EXCEPT ![k] = "raised"]
               /\ UNCHANGED queue
       ELSE /\ sched' = [sched EXCEPT ![k] = "raised"]
            /\ UNCHANGED queue
    /\ UNCHANGED <<now, store, jobs, event_loop, hproc, rproc, cproc, quiet, dproc, lproc, xvars>>

reschedule_daily_task_for_next_day_bad(k, t) == NextOccurrence(FireAt(k), t)

\* The next occurrence the handler asks for: the same hour and minute,
\* tomorrow.
reschedule_daily_task_for_next_day(k, t) ==
    DayStart(t) + SecondsPerDay + SecondOfDay(FireAt(k))

\* Cloud Tasks posts a task that is due to its endpoint.
daily_start(k) ==
    /\ Free(dproc[k])
    /\ \E i \in 1..Len(queue[k]) :
          /\ queue[k][i] <= now
          /\ queue' = [queue EXCEPT ![k] = Remove(@, i)]
    /\ dproc' = [dproc EXCEPT ![k] = [IdleD EXCEPT !.pc = "users"]]
    /\ UNCHANGED <<now, store, jobs, event_loop, hproc, rproc, cproc, quiet, sched, lproc, xvars>>

\* The users are read and each is sent the digest; an exception that leaves
\* the loop goes to the outer handler, which answers {"status": "error"}.
daily_users(k) ==
    /\ dproc[k].pc = "users"
    /\ \/ dproc' = [dproc EXCEPT ![k].pc = "reschedule"]
       \/ dproc' = [dproc EXCEPT ![k].pc = "done", ![k].result = "error"]
    /\ UNCHANGED <<now, store, jobs, event_loop, hproc, rproc, cproc, quiet, queue, sched, lproc, xvars>>

\* "Reschedule for tomorrow": the successor is enqueued, or the call raises
\* and the exception is printed; the answer is {"status": "success"} both
\* ways.
daily_reschedule(k) ==
    /\ dproc[k].pc = "reschedule"
    /\ \/ /\ queue' = [queue EXCEPT ![k] =
                          Append(@, reschedule_daily_task_for_next_day(k, now))]
          /\ dproc' = [dproc EXCEPT ![k].pc = "done", ![k].enqueued = @ + 1,
                                    ![k].result = "success"]
       \/ /\ dproc' = [dproc EXCEPT ![k].pc = "done", ![k].result = "success"]
          /\ UNCHANGED queue
    /\ UNCHANGED <<now, store, jobs, event_loop, hproc, rproc, cproc, quiet, sched, lproc, xvars>>

\* --------------------------------------------- the users of one firing
\* A document of get_all_users() as the loop meets it: data says whether
\* user_id, nickname and phone_number are all there, decrypt what
\* decrypt_phone does, events whether the target date has events, tasks
\* what the two get_tasks calls give, send how the send ends.
UserDoc(data, decrypt, events, tasks, send) ==
    [data |-> data, decrypt |-> decrypt, events |-> events, tasks |-> tasks, send |-> send]
UserDocs ==
    { UserDoc(TRUE, "ok", TRUE, "none", "ok"),
      UserDoc(TRUE, "ok", FALSE, "some", "ok"),
      UserDoc(TRUE, "ok", TRUE, "some", "error"),
      UserDoc(TRUE, "ok", TRUE, "raises", "timeout"),
      UserDoc(TRUE, "ok", FALSE, "none", "ok"),
      UserDoc(TRUE, "ok", FALSE, "raises", "ok"),
      UserDoc(FALSE, "ok", TRUE, "some", "ok"),
      UserDoc(TRUE, "empty", TRUE, "some", "ok"),
      UserDoc(TRUE, "raises", TRUE, "some", "ok") }
UserLists == UNION {[1..n -> UserDocs] : n \in 0..MaxUsers}

\* tools/scheduler.py lines 185-242: the parts of the message, in order.
format_combined_reminder(events, tasks) ==
    <<"greeting">>
       \o (IF events THEN <<"events">> ELSE <<>>)
       \o (IF tasks THEN <<"tasks">> ELSE <<>>)
       \o (IF events \/ tasks THEN <<"footer">> ELSE <<"free day">>)

Notify_bad(events, tasks) == tasks

\* routers/reminder.py line 90, 190: if events or all_active_tasks
Notify(events, tasks) == events \/ tasks

\* routers/reminder.py lines 94-95, 196-198: loop = get_event_loop(); if loop
LoopGiven == event_loop

\* routers/reminder.py lines 44-48, 144-148: the handler has read the users.
digest_start(k, users) ==
    /\ uproc.pc \in {"idle", "done"}
    /\ uproc' = [IdleU EXCEPT !.pc = "loop", !.k = k, !.users = users]
    /\ UNCHANGED <<rvars, calendar, mq, hist, cc>>

\* routers/reminder.py lines 50-110, 148-224: the loop body for the next
\* user. Missing data and a phone number that does not decrypt skip the
\* user; an error of get_tasks leaves no tasks; with events or tasks and an
\* event loop the message is submitted and waited for 30 s, its error or
\* timeout printed.
digest_user ==
    /\ uproc.pc = "loop"
    /\ uproc.i <= Len(uproc.users)
    /\ LET user == uproc.users[uproc.i]
           tasks == user.tasks = "some"
           skip == uproc' = [uproc EXCEPT !.i = @ + 1]
       IN  IF ~user.data \/ user.decrypt # "ok"
           THEN skip
           ELSE IF Notify(user.events, tasks) /\ LoopGiven
           THEN uproc' = [uproc EXCEPT
                            !.i = @ + 1,
                            !.sent = Append(@, [user |-> uproc.i,
                                                message |-> format_combined_reminder(user.events, tasks),
                                                result |-> user.send])]
           ELSE skip
    /\ UNCHANGED <<rvars, calendar, mq, hist, cc>>

\* "Finished processing all users"
digest_done ==
    /\ uproc.pc = "loop"
    /\ uproc.i > Len(uproc.users)
    /\ uproc' = [uproc EXCEPT !.pc = "done", !.result = "success"]
    /\ UNCHANGED <<rvars, calendar, mq, hist, cc>>

\* ------------------------------------------------------- enqueue_message
\* utils/cloud_tasks.py lines 149-156: the keys of the task that is handed
\* to create_task; task_id (lines 142-147) is not among them.
MessageTaskKeys == {"http_request"}

\* message_id of a webhook message; 0 stands for none.
MessageIds == 0..2

\* Lines 142-147: "msg-<message_id>", or one made from the time of the call
\* (0 here: a name of its own).
task_id(message_id) == message_id

\* The name Cloud Tasks gives the task: the one in the task, or one it makes
\* up (0 here).
TaskName(message_id) == IF "name" \in MessageTaskKeys THEN task_id(message_id) ELSE 0

\* create_task raises ALREADY_EXISTS for a name the queue holds.
AlreadyExists(name) == name # 0 /\ \E i \in 1..Len(mq.tasks) : mq.tasks[i].name = name

\* Lines 158-168: create_task; ALREADY_EXISTS is answered with None, any
\* other error is raised again.
enqueue_message(message_id, outcome) ==
    /\ Len(mq.tasks) < MaxQueued
    /\ IF outcome = "error"
       THEN mq' = [mq EXCEPT !.ret = "raised"]
       ELSE IF AlreadyExists(TaskName(message_id))
       THEN mq' = [mq EXCEPT !.ret = "None"]
       ELSE mq' = [tasks |-> Append(mq.tasks, [name |-> TaskName(message_id),
                                               message_id |-> message_id]),
                   ret |-> "response"]
    /\ UNCHANGED <<rvars, calendar, uproc, hist, cc>>

\* Cloud Tasks posts the first task to /worker/process-message and drops it.
process_message ==
    /\ mq.tasks # <<>>
    /\ mq' = [mq EXCEPT !.tasks = Tail(@)]
    /\ UNCHANGED <<rvars, calendar, uproc, hist, cc>>

\* ------------------------------------------------- conversation history
Slice_bad(s, k) == IF Len(s) > k THEN SubSeq(s, 1, k) ELSE s

\* "$slice": -k, and messages[-k:]: the last k elements.
Slice(s, k) == IF Len(s) > k THEN SubSeq(s, Len(s) - k + 1, Len(s)) ELSE s

\* db/mongo.py lines 164-170 and 176-182: the message goes to the fallback
\* dict, when the caller gave one.
SaveToMemory(message, fallback) ==
    IF fallback
    THEN hist' = [hist EXCEPT
                    !.memory = Slice(Append(@, message), MEMORY_MESSAGE_LIMIT),
                    !.to_memory = Append(@, message),
                    !.saved = Append(@, message)]
    ELSE hist' = hist

\* db/mongo.py lines 129-183. The message is the number of the call.
\* update_one pushes it and slices (lines 144-156); when it reports nothing
\* upserted or modified, or raises, the fallback takes the message.
save_message_to_history(outcome, fallback) ==
    /\ Len(hist.saved) < MaxSaves
    /\ LET message == Len(hist.saved) + 1
       IN  IF outcome = "ok"
           THEN hist' = [hist EXCEPT
                           !.mongo = Slice(Append(@, message), MEMORY_MESSAGE_LIMIT),
                           !.to_mongo = Append(@, message),
                           !.saved = Append(@, message)]
           ELSE SaveToMemory(message, fallback)
    /\ UNCHANGED <<rvars, calendar, uproc, mq, cc>>

\* db/mongo.py lines 185-226: the document of the user is set to the
\* messages of the fallback dict, limited; an error of update_one is printed.
migrate_memory_to_mongodb(outcome) ==
    /\ hist.memory # <<>>
    /\ IF outcome = "ok"
       THEN hist' = [hist EXCEPT !.mongo = Slice(hist.memory, MEMORY_MESSAGE_LIMIT),
                                 !.to_mongo = hist.to_memory]
       ELSE hist' = hist
    /\ UNCHANGED <<rvars, calendar, uproc, mq, cc>>

\* ------------------------------------- get_cached_conversation_history
\* asyncio.Lock(): a lock object that is neither the one in user_locks nor
\* one a call still refers to.
NewLock ==
    CHOOSE l \in 1..(MaxCallers + 1) :
       l # cc.lock /\ \A c \in Callers : cc.call[c].lock # l

\* ai/workflows/assistant.py lines 78-94: a cache hit returns the entry.
\* Else the lock of the user is taken from user_locks, made first when
\* there is none, and acquired: at once when it is free (no other coroutine
\* runs before the load of line 98 starts), else the call waits for it.
get_cached_conversation_history(c) ==
    /\ cc.call[c].pc = "idle"
    /\ IF cc.cache # "none"
       THEN cc' = [cc EXCEPT !.call[c] = [IdleG EXCEPT !.pc = "done", !.ret = cc.cache]]
       ELSE LET user_lock == IF cc.lock = 0 THEN NewLock ELSE cc.lock
            IN  IF user_lock \in cc.held
                THEN cc' = [cc EXCEPT !.lock = user_lock,
                                      !.call[c] = [IdleG EXCEPT !.pc = "wait",
                                                                !.lock = user_lock]]
                ELSE cc' = [cc EXCEPT !.lock = user_lock,
                                      !.held = @ \cup {user_lock},
                                      !.call[c] = [IdleG EXCEPT !.pc = "loading",
                                                                !.lock = user_lock]]
    /\ UNCHANGED <<rvars, calendar, uproc, mq, hist>>

\* Lines 91-98: the lock is released to a waiting call, which checks the
\* cache again and returns the entry, or starts the load.
get_cached_acquire(c) ==
    /\ cc.call[c].pc = "wait"
    /\ cc.call[c].lock \notin cc.held
    /\ IF cc.cache # "none"
       THEN cc' = [cc EXCEPT !.call[c] = [IdleG EXCEPT !.pc = "done", !.ret = cc.cache]]
       ELSE cc' = [cc EXCEPT !.held = @ \cup {cc.call[c].lock},
                             !.call[c].pc = "loading"]
    /\ UNCHANGED <<rvars, calendar, uproc, mq, hist>>

\* Lines 98-103: get_conversation_history has answered; the history is put
\* in the cache, the lock released, the history returned.
get_cached_loaded(c) ==
    /\ cc.call[c].pc = "loading"
    /\ cc' = [cc EXCEPT !.cache = "history",
                        !.held = @ \ {cc.call[c].lock},
                        !.call[c] = [IdleG EXCEPT !.pc = "done", !.ret = "history"]]
    /\ UNCHANGED <<rvars, calendar, uproc, mq, hist>>

\* The caller has its history; it may call again.
get_cached_return(c) ==
    /\ cc.call[c].pc = "done"
    /\ cc' = [cc EXCEPT !.call[c] = IdleG]
    /\ UNCHANGED <<rvars, calendar, uproc, mq, hist>>

\* Lines 107-131: the cache entry and the lock entry of the user are deleted.
clear_user_cache ==
    /\ cc' = [cc EXCEPT !.cache = "none", !.lock = 0]
    /\ UNCHANGED <<rvars, calendar, uproc, mq, hist>>

\* TTLCache drops the lock entry USER_LOCKS_CACHE_TTL after it was put in.
user_locks_expire ==
    /\ cc.lock # 0
    /\ cc' = [cc EXCEPT !.lock = 0]
    /\ UNCHANGED <<rvars, calendar, uproc, mq, hist>>

\* TTLCache drops the cache entry CONVERSATION_CACHE_TTL after it was put in.
conversation_cache_expire ==
    /\ cc.cache # "none"
    /\ cc' = [cc EXCEPT !.cache = "none"]
    /\ UNCHANGED <<rvars, calendar, uproc, mq, hist>>

today_reminder_handler ==
    daily_start("today") \/ daily_users("today") \/ daily_reschedule("today")

tomorrow_reminder_handler ==
    daily_start("tomorrow") \/ daily_users("tomorrow") \/ daily_reschedule("tomorrow")

\* The instants the daily tasks are due at.
DailyTargets ==
    {d * SecondsPerDay + SecondOfDay(FireAt(k)) : d \in 0..MaxDays, k \in Endpoints}

CreateTaskOutcomes == {"ok", "ALREADY_EXISTS", "error"}

\* ------------------------------------------------------------------- Next
\* Every way dateparser can answer the strategies, the original text tried
\* only when the normalized text gave nothing and the manual fallback only
\* when both gave nothing.
create_custom_reminder_any ==
    \E norm \in Responses(now) :
       IF TryStrategies(norm, now) # NoParse
       THEN create_custom_reminder(norm, NoResponse, NoManual)
       ELSE \E orig \in Responses(now) :
               IF TryStrategies(orig, now) # NoParse
               THEN create_custom_reminder(norm, orig, NoManual)
               ELSE \E manual \in ManualInputs : create_custom_reminder(norm, orig, manual)

create_event_reminder_any ==
    \E e \in EventInputs, lookup \in Lookups : create_event_reminder(e[1], e[2], lookup)

Next ==
    \/ create_custom_reminder_any
    \/ create_event_reminder_any
    \/ create_add_job
    \/ \E r \in Ids : send_reminder_start(r)
    \/ \E r \in Ids : misfire(r)
    \/ send_reminder_mark_sent
    \/ send_reminder_mark_failed
    \/ \E r \in RequestIds, lookup \in FindOutcomes : reminder_consumer_start(r, lookup)
    \/ reminder_consumer_mark_sent
    \/ \E h \in Slots, res \in {"ok", "error"} : send_complete(h, res)
    \/ run_bg_loop
    \/ reload_start
    \/ reload_one
    \/ reload_done
    \/ \E t \in TickTargets \cup DailyTargets : Tick(t)
    \/ Restart
    \/ \E k \in Endpoints, outcome \in CreateTaskOutcomes : schedule_daily_task(k, outcome)
    \/ today_reminder_handler
    \/ tomorrow_reminder_handler

Spec == Init /\ [][Next]_vars

\* The two creation paths, with time passing.
NextCreate ==
    \/ create_custom_reminder_any
    \/ create_event_reminder_any
    \/ create_add_job
    \/ \E t \in TickTargets : Tick(t)

CreateSpec == Init /\ [][NextCreate]_vars

\* reload_reminders, run any number of times on any store and job store the
\* program can have left behind.
StoredRecords ==
    [type : {"event"}, reminder_time : Clock, status : {"scheduled", "sent"},
     created_at : {0}, user_id : {Caller}, phone_number : {CallerPhone}]

InitReconcile ==
    /\ now \in Clock
    /\ store \in UNION {[1..n -> StoredRecords] : n \in 0..MaxStored}
    /\ jobs \in SUBSET (1..Len(store))
    /\ event_loop = FALSE
    /\ hproc = [h \in Slots |-> IdleH]
    /\ rproc = IdleR
    /\ cproc = IdleC
    /\ quiet = FALSE
    /\ queue = [k \in Endpoints |-> <<>>]
    /\ dproc = [k \in Endpoints |-> IdleD]
    /\ sched = [k \in Endpoints |-> "none"]
    /\ lproc = IdleL
    /\ InitX

NextReconcile ==
    \/ reload_start
    \/ reload_one
    \/ reload_done
    \/ \E t \in TickTargets : Tick(t)

ReconcileSpec == InitReconcile /\ [][NextReconcile]_vars

\* A reminder from its creation to its end: the scheduler, the job handler,
\* reload_reminders and process restarts.
NextLifecycle ==
    \/ create_event_reminder_any
    \/ create_add_job
    \/ \E r \in Ids : send_reminder_start(r)
    \/ \E r \in Ids : misfire(r)
    \/ send_reminder_mark_sent
    \/ send_reminder_mark_failed
    \/ reload_start
    \/ reload_one
    \/ reload_done
    \/ \E t \in TickTargets : Tick(t)
    \/ Restart

LifecycleSpec == Init /\ [][NextLifecycle]_vars

\* The scheduler is fair: a registered job that is due runs, the handler it
\* runs goes on to its store write, the write goes through, and time passes.
\* Nothing obliges anyone to call reload_reminders, to create a reminder or
\* to restart the process.
FairSpec ==
    /\ LifecycleSpec
    /\ WF_vars(create_add_job)
    /\ \A r \in 1..MaxReminders :
          WF_vars(r \in Ids /\ send_reminder_start(r) /\ hproc'["job"].pc = "found")
    /\ WF_vars(send_reminder_mark_sent /\ hproc'["job"].pc = "done")
    /\ WF_vars(send_reminder_mark_failed /\ hproc'["job"].wrote = "failed")
    /\ WF_vars(\E t \in TickTargets : Tick(t))

\* The two execution handlers and the sends they submit.
Texts(t) ==
    LET later == IF Later(t) = {} THEN t ELSE Least(Later(t))
    IN  { <<<<later, later, later>>, NoResponse>>,
          <<NoResponse, NoResponse>>,
          <<<<t, NoParse, t>>, NoResponse>>,
          <<<<t, NoParse, NoParse>>, <<NoParse, later, NoParse>>>> }

NextDeliver ==
    \/ \E x \in Texts(now) : create_custom_reminder(x[1], x[2], NoManual)
    \/ create_add_job
    \/ \E r \in Ids : send_reminder_start(r)
    \/ send_reminder_mark_sent
    \/ send_reminder_mark_failed
    \/ \E r \in RequestIds, lookup \in FindOutcomes : reminder_consumer_start(r, lookup)
    \/ reminder_consumer_mark_sent
    \/ \E h \in Slots, res \in {"ok", "error"} : send_complete(h, res)
    \/ run_bg_loop
    \/ \E t \in TickTargets : Tick(t)

DeliverSpec == Init /\ [][NextDeliver]_vars

\* The same, with a handler that has found its reminder going on to its
\* store write, the write going through, and a submitted send finishing.
RedeliverSpec ==
    /\ DeliverSpec
    /\ WF_vars(reminder_consumer_mark_sent /\ hproc'["http"].wrote = "sent")
    /\ WF_vars(\E res \in {"ok", "error"} : send_complete("http", res))

\* Creation with the job registration failing or not, and reload_reminders
\* run afterwards.
NextEnqueue ==
    \/ \E x \in Texts(now) : create_custom_reminder(x[1], x[2], NoManual)
    \/ create_event_reminder_any
    \/ create_add_job
    \/ reload_start
    \/ reload_one
    \/ reload_done
    \/ \E t \in TickTargets : Tick(t)

EnqueueSpec == Init /\ [][NextEnqueue]_vars

\* create_custom_reminder on texts dateparser has no reading of, which the
\* manual fallback matches.
NextManual ==
    \/ \E m \in ClockTexts : create_custom_reminder(NoResponse, NoResponse, m)
    \/ create_add_job
    \/ \E t \in TickTargets : Tick(t)

ManualSpec == Init /\ [][NextManual]_vars

\* create_custom_reminder on duration texts.
NextParse ==
    \/ \E x \in DurationTexts : create_custom_reminder_text(x)
    \/ create_add_job
    \/ \E t \in TickTargets : Tick(t)

ParseSpec == Init /\ [][NextParse]_vars

\* list_reminders on any store of several users' reminders.
ListTimes == {0, GRACE_SECONDS}
\* The caller's reminders in every status, other users' scheduled reminders.
ListedRecords ==
    [type : {"custom"}, reminder_time : ListTimes, status : Statuses,
     created_at : {0}, user_id : {Caller}, phone_number : {CallerPhone}]
       \cup [type : {"custom"}, reminder_time : ListTimes, status : {"scheduled"},
             created_at : {0}, user_id : Users \ {Caller}, phone_number : {CallerPhone}]

InitList ==
    /\ now \in Clock
    /\ store \in UNION {[1..n -> ListedRecords] : n \in 0..MaxListed}
    /\ jobs = {}
    /\ event_loop = FALSE
    /\ hproc = [h \in Slots |-> IdleH]
    /\ rproc = IdleR
    /\ cproc = IdleC
    /\ quiet = FALSE
    /\ queue = [k \in Endpoints |-> <<>>]
    /\ dproc = [k \in Endpoints |-> IdleD]
    /\ sched = [k \in Endpoints |-> "none"]
    /\ lproc = IdleL
    /\ InitX

NextList ==
    \/ \E u \in Users : list_reminders(u)
    \/ \E t \in TickTargets : Tick(t)

ListSpec == InitList /\ [][NextList]_vars

\* Every operation that reads or writes the reminders, one operation at a
\* time (what an operation does to the records does not depend on the
\* operations in flight), the clock stopping where a reminder created at 0
\* is due and where it is past the grace period.
FrameTicks == {GRACE_SECONDS - 1, GRACE_SECONDS + 1}
FrameEvents == {0, GRACE_SECONDS}

Quiescent ==
    /\ Free(cproc)
    /\ \A h \in Slots : Free(hproc[h])
    /\ rproc.pc = "idle"

NextFrame ==
    \/ Quiescent /\ \E x \in Texts(now) : create_custom_reminder(x[1], x[2], NoManual)
    \/ Quiescent /\ \E ev \in FrameEvents : create_event_reminder(ev, 0, "given")
    \/ create_add_job
    \/ Quiescent /\ \E r \in Ids : send_reminder_start(r)
    \/ send_reminder_mark_sent
    \/ send_reminder_mark_failed
    \/ Quiescent /\ \E r \in RequestIds : reminder_consumer_start(r, "answers")
    \/ reminder_consumer_mark_sent
    \/ \E h \in Slots : send_complete(h, "ok")
    \/ Quiescent /\ run_bg_loop
    \/ Quiescent /\ reload_start
    \/ reload_one
    \/ reload_done
    \/ Quiescent /\ list_reminders(Caller)
    \/ Quiescent /\ \E t \in FrameTicks : Tick(t)

FrameSpec == Init /\ [][NextFrame]_vars

\* The user loop of the daily handlers, with the background loop up or not.
NextDigest ==
    \/ \E k \in Endpoints, users \in UserLists : digest_start(k, users)
    \/ digest_user
    \/ digest_done
    \/ run_bg_loop

DigestSpec == Init /\ [][NextDigest]_vars

\* The webhook enqueuing messages and the queue handing them to the worker.
NextMessages ==
    \/ \E m \in MessageIds, outcome \in {"ok", "error"} : enqueue_message(m, outcome)
    \/ process_message

MessageSpec == Init /\ [][NextMessages]_vars

\* Messages saved for one user with MongoDB answering or not, and the
\* migration of the fallback.
NextHistory ==
    \/ \E outcome \in {"ok", "unmodified", "raises"}, fallback \in BOOLEAN :
          save_message_to_history(outcome, fallback)
    \/ \E outcome \in {"ok", "raises"} : migrate_memory_to_mongodb(outcome)

HistorySpec == Init /\ [][NextHistory]_vars

\* Concurrent calls for the history of one user, the admin clearing the
\* cache of the user, and the two caches dropping entries that are due.
NextCache ==
    \/ \E c \in Callers : get_cached_conversation_history(c)
    \/ \E c \in Callers : get_cached_acquire(c)
    \/ \E c \in Callers : get_cached_loaded(c)
    \/ \E c \in Callers : get_cached_return(c)
    \/ clear_user_cache
    \/ user_locks_expire
    \/ conversation_cache_expire

CacheSpec == Init /\ [][NextCache]_vars

\* create_event for timed and all-day events of users with and without a
\* phone number.
EventStarts == {GRACE_SECONDS + 1, 900, 1200}

NextEvent ==
    \/ \E start \in EventStarts, all_day \in BOOLEAN, phone \in BOOLEAN :
          create_event(start, all_day, phone)
    \/ \E t \in TickTargets : Tick(t)

EventSpec == Init /\ [][NextEvent]_vars

\* The daily chain of the two briefings.
NextDaily ==
    \/ \E k \in Endpoints, outcome \in CreateTaskOutcomes : schedule_daily_task(k, outcome)
    \/ today_reminder_handler
    \/ tomorrow_reminder_handler
    \/ \E t \in DailyTargets : Tick(t)

DailySpec == Init /\ [][NextDaily]_vars

\* ------------------------------------------------------------- properties
\* C1: once a reminder's status is sent, failed or missed, no step of any
\* operation changes it.
C1_StatusMonotonic ==
    [][\A r \in Ids : store[r].status \in Terminal => store'[r].status = store[r].status]_vars

\* C2: each pass of the reload loop over a scheduled reminder: when now minus
\* reminder_time is at most 300 s (a future time included) the reminder has a
\* job afterwards and stays scheduled; when it is more than 300 s the pass
\* registers no job and the reminder becomes missed (a pass the run counts as
\* an error, its store write having raised, leaves the status as it was).
C2_GraceBoundary ==
    [][reload_one =>
         LET r == Current
             late == rproc.now - store[r].reminder_time
             res == rproc'.out[Len(rproc'.out)]
         IN  IF late <= 300
             THEN r \in jobs' /\ store'[r].status = "scheduled"
             ELSE jobs' = jobs /\ (res # "error" => store'[r].status = "missed")]_vars

\* C2 witness: one run has met a reminder exactly 300 s late and registered
\* its job, and a reminder 301 s late and marked it missed.
C2_BothSidesOfBoundary ==
    /\ rproc.pc = "loop"
    /\ \E i, j \in 1..Len(rproc.out) :
          /\ rproc.out[i] = "reloaded"
          /\ rproc.now - store[rproc.found[i]].reminder_time = 300
          /\ rproc.found[i] \in jobs
          /\ store[rproc.found[i]].status = "scheduled"
          /\ rproc.out[j] = "missed"
          /\ rproc.now - store[rproc.found[j]].reminder_time = 301
          /\ rproc.found[j] \notin jobs
          /\ store[rproc.found[j]].status = "missed"

\* C3: a run of reload_reminders that follows a completed run, with nothing
\* else having touched the store or the jobs, registers no job and leaves
\* the job set as it found it: every reminder it finds within the grace
\* period has its job already. And no pass of any run registers a job for an
\* id that has one.
C3_Idempotent ==
    [][reload_one =>
         LET r == Current
             res == rproc'.out[Len(rproc'.out)]
         IN  /\ jobs' # jobs => (r \notin jobs /\ jobs' = jobs \cup {r})
             /\ (rproc.second /\ quiet) =>
                   /\ jobs' = jobs
                   /\ res # "reloaded"
                   /\ rproc.now - store[r].reminder_time <= 300 => res = "exists"]_vars

\* C3 witness: a second run in succession has found a reminder whose job the
\* job store already holds and has skipped it.
C3_SecondRunSkips ==
    /\ rproc.pc = "loop" /\ rproc.second /\ quiet
    /\ \E i \in 1..Len(rproc.out) :
          rproc.out[i] = "exists" /\ rproc.found[i] \in jobs

\* C4: every custom reminder in the store has a reminder_time later than
\* its created_at + 1 s, a success result names such a record, and a call of
\* create_custom_reminder that resolves a time at or before now + 1 s
\* returns the past-time error and changes neither the store nor the jobs.
C4_PastTimeRejected ==
    [][/\ \A r \in 1..Len(store') :
             store'[r].type = "custom" =>
                store'[r].reminder_time > store'[r].created_at + 1
       /\ (cproc'.kind = "custom" /\ cproc'.result = "success") =>
             /\ cproc'.id \in 1..Len(store')
             /\ store'[cproc'.id].reminder_time = cproc'.rt
             /\ cproc'.id \in jobs'
       /\ (cproc' # cproc /\ cproc.pc # "inserted" /\ cproc'.kind = "custom"
             /\ cproc'.rt # NoParse /\ cproc'.rt <= now + 1) =>
             (cproc'.result = "past_time" /\ store' = store /\ jobs' = jobs)]_vars

\* C4 witness: a call has resolved exactly now + 1 s and has been rejected,
\* with nothing stored and nothing scheduled.
C4_RejectedAtBuffer ==
    /\ cproc.kind = "custom" /\ cproc.result = "past_time"
    /\ cproc.rt = now + 1
    /\ store = <<>> /\ jobs = {}

\* C5: every reminder in the store, from either creation path, has a
\* reminder_time strictly later than its created_at (create_event_reminder
\* having skipped every reminder time that is not in the future).
C5_FutureAtCreation ==
    \A r \in Ids : store[r].reminder_time > store[r].created_at

\* C6: an invocation of a daily handler that has returned its response has
\* enqueued exactly one successor task.
C6_SuccessorEnqueued ==
    \A k \in Endpoints : dproc[k].pc = "done" => dproc[k].enqueued = 1

\* C7: when the process has come up again, every scheduled reminder is at
\* most 300 s past due and has a registered job (those further past due
\* having been marked missed).
C7_ReloadOnRestart ==
    [][Restart =>
         \A r \in 1..Len(store') :
            store'[r].status = "scheduled" =>
               (now' - store'[r].reminder_time <= 300 /\ r \in jobs')]_vars

\* C8: a reminder that is stored with status scheduled and has its job
\* registered eventually has status sent, failed or missed.
C8_EventualDelivery ==
    \A r \in 1..MaxReminders :
       (r \in Ids /\ store[r].status = "scheduled" /\ r \in jobs)
          ~> (r \in Ids /\ store[r].status \in Terminal)

\* C9: a handler invocation that has returned and whose send failed has
\* marked the reminder failed (its store writes having gone through).
C9_FailureMarksFailed ==
    \A h \in Slots :
       (hproc[h].pc = "done" /\ hproc[h].send = "error" /\ hproc[h].result # "exception")
          => hproc[h].wrote = "failed"

\* C10: no handler invocation has written the status while the send it
\* submitted is still pending.
C10_SendBeforeStore ==
    \A h \in Slots : hproc[h].wrote \in {"sent", "failed"} => hproc[h].send # "pending"

\* C11: POST /reminder/send with an id that is not in the store, the lookup
\* answering: the handler submits no send, writes nothing, changes neither
\* the store nor the jobs and returns the "Reminder not found" result.
C11_MissingReminder ==
    [][\A r \in RequestIds :
          (r \notin Ids /\ reminder_consumer_start(r, "answers")) =>
             /\ hproc'["http"] = [IdleH EXCEPT !.pc = "done", !.rid = r, !.result = "error"]
             /\ store' = store /\ jobs' = jobs]_vars

\* C11 witness: with the background loop running and a reminder in the
\* store, a request for an id that is not in the store has been answered
\* "Reminder not found".
C11_NotFoundAnswered ==
    /\ event_loop /\ store # <<>>
    /\ hproc["http"].rid \notin Ids
    /\ hproc["http"].pc = "done" /\ hproc["http"].result = "error"
    /\ hproc["http"].send = "none" /\ hproc["http"].wrote = "none"

\* C12: when scheduler.add_job fails after the record was inserted, the
\* creation call does not return success, the record stays in the store
\* with status scheduled and without a job; a reload_reminders run that
\* starts afterwards finds every scheduled record, and its pass over one
\* that is not past the grace period leaves it with a job.
C12_EnqueueFailure ==
    [][/\ (cproc.pc # "inserted" /\ cproc'.pc = "inserted") =>
             /\ cproc'.id \in 1..Len(store')
             /\ store'[cproc'.id].status = "scheduled"
       /\ (create_add_job /\ cproc.id \notin jobs') =>
             /\ cproc'.result = "exception"
             /\ store' = store /\ jobs' = jobs
       /\ (create_add_job /\ cproc'.result = "success") => cproc.id \in jobs'
       /\ (reload_start /\ rproc'.pc = "loop") =>
             \A r \in Ids : store[r].status = "scheduled" =>
                \E i \in 1..Len(rproc'.found) : rproc'.found[i] = r
       /\ (reload_one /\ ~PastGrace(store[Current].reminder_time, rproc.now)) =>
             Current \in jobs']_vars

\* C12 witness: the creation call ended with the exception of add_job, its
\* record is in the store with status scheduled, and a reload_reminders run
\* has registered the job for it.
C12_ReloadPicksItUp ==
    /\ cproc.pc = "done" /\ cproc.result = "exception" /\ cproc.id \in Ids
    /\ store[cproc.id].status = "scheduled"
    /\ rproc.pc = "loop"
    /\ \E i \in 1..Len(rproc.out) :
          rproc.found[i] = cproc.id /\ rproc.out[i] = "reloaded"
    /\ cproc.id \in jobs

\* C13: when create_task fails with ALREADY_EXISTS, schedule_daily_task
\* returns a task and a task for the next occurrence is in the queue
\* afterwards.
C13_AlreadyExistsRecreated ==
    [][\A k \in Endpoints :
          schedule_daily_task(k, "ALREADY_EXISTS") =>
             /\ sched'[k] = "returned"
             /\ \E i \in 1..Len(queue'[k]) :
                   queue'[k][i] = NextOccurrence(FireAt(k), now)]_vars

\* C14: at any time each recurring job (today briefing, tomorrow briefing)
\* has at most one pending task in the queue.
C14_NoDuplicateDailyJobs ==
    \A k \in Endpoints : Len(queue[k]) <= 1

\* C15: the successor a daily handler enqueues when it runs at time t is
\* scheduled for the job's hour and minute on the calendar day after the day
\* of t, hence strictly after t and on a later day than the firing; and the
\* first task schedule_daily_task registers is strictly after the time of
\* the call, at the job's hour and minute, at most one day ahead.
C15_NextOccurrence ==
    [][\A k \in Endpoints :
          /\ (daily_reschedule(k) /\ queue' # queue) =>
                LET next == queue'[k][Len(queue'[k])]
                IN  /\ next = DayStart(now) + SecondsPerDay + SecondOfDay(FireAt(k))
                    /\ next > now
                    /\ DayStart(next) = DayStart(now) + SecondsPerDay
          /\ (schedule_daily_task(k, "ok")) =>
                LET first == queue'[k][Len(queue'[k])]
                IN  /\ first > now
                    /\ first <= now + SecondsPerDay
                    /\ first - DayStart(first) = SecondOfDay(FireAt(k))]_vars

\* C15 witness: a handler that ran late, on the day after its task was due
\* and before the job's hour, has enqueued the successor for the next day.
C15_LateFiringNextDay ==
    \E k \in Endpoints :
       /\ dproc[k].pc = "done" /\ dproc[k].enqueued = 1
       /\ now >= SecondsPerDay
       /\ now - DayStart(now) < SecondOfDay(FireAt(k))
       /\ \E i \in 1..Len(queue[k]) :
             queue[k][i] = DayStart(now) + SecondsPerDay + SecondOfDay(FireAt(k))

\* C16: the time create_custom_reminder resolves is the result of the first
\* stage, in the order normalized text strategies 1-3, original text
\* strategies 1-3, manual fallback, that gives an instant strictly after
\* now, whenever some stage gives one.
C16_OrderedFallback ==
    [][\A norm \in Responses(now), orig \in Responses(now), manual \in ManualInputs :
          LET stages == norm \o orig \o <<ManualParse(manual, now)>>
              after(i) == stages[i] # NoParse /\ stages[i] > now
          IN  (create_custom_reminder(norm, orig, manual) /\ \E i \in 1..7 : after(i)) =>
                 \E i \in 1..7 : /\ after(i)
                                 /\ \A j \in 1..(i - 1) : ~after(j)
                                 /\ cproc'.rt = stages[i]]_vars

\* C17: a text H[:MM][am|pm] that reaches the manual fallback with a valid
\* hour and minute (12am is 0, 12pm is 12, other pm hours add 12) resolves
\* to today at that time when that is after now and to the same time
\* tomorrow otherwise, so that now < result <= now + 24 h; an hour or minute
\* out of range resolves to nothing and the call ends with the parse error.
C17_ManualFallback ==
    [][\A m \in ClockTexts :
          (m[1] /\ create_custom_reminder(NoResponse, NoResponse, m)) =>
             LET hour == CASE m[4] = "am" /\ m[2] = 12 -> 0
                           [] m[4] = "pm" /\ m[2] # 12 -> m[2] + 12
                           [] OTHER -> m[2]
                 today == DayStart(now) + hour * 3600 + m[3] * 60
             IN  IF hour <= 23 /\ m[3] <= 59
                 THEN /\ cproc'.rt = IF today > now THEN today ELSE today + SecondsPerDay
                      /\ now < cproc'.rt
                      /\ cproc'.rt <= now + SecondsPerDay
                 ELSE /\ cproc'.rt = NoParse
                      /\ cproc'.result = "parse_error"
                      /\ store' = store]_vars

\* C17 witness: "0:05" given at or after 00:05 was stored for 00:05 of the
\* next day.
C17_TomorrowChosen ==
    /\ now >= 300
    /\ cproc.pc = "inserted" /\ cproc.kind = "custom"
    /\ cproc.rt = SecondsPerDay + 300
    /\ store[cproc.id].reminder_time = SecondsPerDay + 300

\* C18: for the texts "in N minutes", "N hours" and "N days" with N > 0 the
\* normalized text starts with "in ", create_custom_reminder resolves
\* now + N units and ends with neither the parse error nor the
\* not-in-the-future error, the record it inserts has that reminder_time and
\* status scheduled, and the job is registered when the call succeeds.
C18_RoundTrip ==
    [][/\ \A x \in DurationTexts :
             (x.n > 0 /\ x.unit \in Units /\ x.lead \in {"in", "none"}) =>
                /\ Normalize(x) = [x EXCEPT !.lead = "in"]
                /\ create_custom_reminder_text(x) =>
                      /\ cproc'.rt = now + x.n * UnitSeconds(x.unit)
                      /\ cproc'.result \notin {"parse_error", "past_time"}
                      /\ cproc'.pc = "inserted" =>
                            /\ store'[cproc'.id].reminder_time = cproc'.rt
                            /\ store'[cproc'.id].status = "scheduled"
       /\ (create_add_job /\ cproc'.result = "success") => cproc.id \in jobs']_vars

\* C18 witness: "2 hours", given after time 0 without the leading "in",
\* ended in success with the record two hours after its creation.
C18_TwoHoursStored ==
    /\ cproc.pc = "done" /\ cproc.result = "success" /\ cproc.id \in jobs
    /\ store[cproc.id].created_at > 0
    /\ store[cproc.id].reminder_time = store[cproc.id].created_at + 2 * 3600
    /\ store[cproc.id].status = "scheduled"

\* C19: a call of create_custom_reminder that ends with the parse error
\* quotes the text as it was given, not its normalized form, and leaves the
\* stored reminders and the registered jobs as they were.
C19_ParseErrorNoChange ==
    [][/\ \A x \in DurationTexts :
             (create_custom_reminder_text(x) /\ cproc'.result = "parse_error") =>
                cproc'.quoted = x
       /\ (cproc # cproc' /\ cproc'.result = "parse_error") =>
             (store' = store /\ jobs' = jobs)]_vars

\* C19 witness: with a reminder stored and its job registered, "next soon"
\* was answered with the parse error quoting "next soon".
C19_RejectedAfterStored ==
    /\ Len(store) = 1 /\ jobs = {1}
    /\ cproc.pc = "done" /\ cproc.result = "parse_error"
    /\ cproc.quoted = Text("next", 0, "soon")

\* C20: list_reminders(user_id) reports each reminder of that user with
\* status scheduled and reminder_time at or after now, once, and no other
\* reminder, in ascending order of reminder_time, and changes no record.
C20_ListReminders ==
    [][\A u \in Users :
          list_reminders(u) =>
             LET out == lproc'.out
             IN  /\ \A r \in Ids :
                       (\E i \in 1..Len(out) : out[i] = r) <=>
                          /\ store[r].user_id = u
                          /\ store[r].status = "scheduled"
                          /\ store[r].reminder_time >= now
                 /\ \A i, j \in 1..Len(out) : i # j => out[i] # out[j]
                 /\ \A i \in 1..(Len(out) - 1) :
                       store[out[i]].reminder_time <= store[out[i + 1]].reminder_time
                 /\ store' = store /\ jobs' = jobs]_vars

\* C20 witness: of three stored reminders the call reported two, the later
\* stored one first because it is due earlier, and left out the third.
C20_TwoListedInOrder ==
    /\ Len(store) = 3 /\ Len(lproc.out) = 2
    /\ lproc.out[1] > lproc.out[2]
    /\ store[lproc.out[1]].reminder_time < store[lproc.out[2]].reminder_time
    /\ \E r \in Ids : store[r].user_id = lproc.user_id /\ store[r].status \in Terminal

\* C21: create_event for a timed event of a user with a phone number, the
\* event starting more than 15 minutes from now, adds exactly one reminder
\* of type event with status scheduled and reminder_time 15 minutes before
\* the start; create_event for an all-day event adds none.
C21_AutoReminder ==
    [][\A start \in EventStarts :
          /\ (create_event(start, FALSE, TRUE) /\ start - 900 > now) =>
                /\ Len(store') = Len(store) + 1
                /\ store'[Len(store')].type = "event"
                /\ store'[Len(store')].status = "scheduled"
                /\ store'[Len(store')].reminder_time = start - 900
          /\ (\E phone \in BOOLEAN : create_event(start, TRUE, phone)) =>
                store' = store]_vars

\* C22: no step removes a reminder or changes anything but the status of an
\* existing one (its place in the store, user_id, phone_number and
\* reminder_time stay); a step that changes a record is a store write of
\* send_reminder, of the /reminder/send handler or of reload_reminders, so
\* the creation calls and list_reminders change no existing record; and a
\* handler submits its send to the phone_number of the stored record.
C22_Frame ==
    [][/\ Len(store') >= Len(store)
       /\ \A r \in Ids : store'[r] = [store[r] EXCEPT !.status = store'[r].status]
       /\ (\E r \in Ids : store'[r] # store[r]) =>
             \/ send_reminder_mark_sent
             \/ send_reminder_mark_failed
             \/ reminder_consumer_mark_sent
             \/ reload_one
       /\ \A h \in Slots :
             (hproc[h].send # "pending" /\ hproc'[h].send = "pending") =>
                hproc'[h].to = store[hproc'[h].rid].phone_number]_vars

\* C22 witness: the job handler sent to the stored phone number and marked
\* the reminder sent; a creation call that was rejected and a
\* list_reminders call came later, and the record is in the store as created
\* except for its status.
C22_RecordKept ==
    /\ Len(store) = 1
    /\ store[1] = [NewReminder("event", GRACE_SECONDS, 0) EXCEPT !.status = "sent"]
    /\ hproc["job"].wrote = "sent" /\ hproc["job"].to = CallerPhone
    /\ cproc.kind = "custom" /\ cproc.result = "past_time"
    /\ lproc.user_id = Caller /\ lproc.now > GRACE_SECONDS

\* C23: when a daily handler comes to a user with complete data and no events
\* and no active tasks, it sends that user the empty-state message: the
\* greeting and the free-day line, no events section and no tasks section.
C23_EmptyStateSent ==
    [][(digest_user /\ event_loop
           /\ uproc.users[uproc.i].data /\ uproc.users[uproc.i].decrypt = "ok"
           /\ ~uproc.users[uproc.i].events /\ uproc.users[uproc.i].tasks = "none") =>
          /\ Len(uproc'.sent) = Len(uproc.sent) + 1
          /\ uproc'.sent[Len(uproc'.sent)].user = uproc.i
          /\ uproc'.sent[Len(uproc'.sent)].message = <<"greeting", "free day">>]_vars

\* The user the loop is at has all it takes to be notified.
Qualified(user) ==
    /\ user.data
    /\ user.decrypt = "ok"
    /\ user.events \/ user.tasks = "some"

SendsTo(sent, j) == Cardinality({n \in 1..Len(sent) : sent[n].user = j})

Outcome(send) == IF send = "ok" THEN "sent" ELSE "failed"

\* C24: POST /reminder/send invoked for a reminder that an earlier invocation
\* left failed sends again, and the status ends as the outcome of this
\* attempt: sent when the send succeeded, failed when it did not.
C24_Redelivery ==
    \A r \in 1..MaxReminders :
       (/\ hproc["http"].pc = "found" /\ hproc["http"].rid = r
        /\ hproc["http"].send = "pending"
        /\ r \in Ids /\ store[r].status = "failed")
          ~> (/\ hproc["http"].pc = "done" /\ hproc["http"].rid = r
              /\ hproc["http"].send \in {"ok", "error"}
              /\ r \in Ids /\ store[r].status = Outcome(hproc["http"].send))

\* C29: a handler invocation that has written status sent has submitted a
\* send to the reminder's phone_number to the background loop; with no loop
\* nothing is marked sent.
C29_SentOnlyIfSubmitted ==
    \A h \in Slots :
       hproc[h].wrote = "sent" =>
          /\ hproc[h].send # "none"
          /\ hproc[h].rid \in Ids
          /\ hproc[h].to = store[hproc[h].rid].phone_number

\* C30: each pass of the loop of reload_reminders takes the next reminder
\* found, whatever the passes before it ended in, and ends in exactly one of
\* reloaded (its job registered), skipped past grace (marked missed), error,
\* or uncounted because its job exists; the three counts go up by one in
\* all but the last case, so their sum never exceeds the number found and
\* equals the number of passes when no job existed.
C30_Accounting ==
    [][reload_one =>
         LET n == Len(rproc.out) + 1
             r == rproc.found[n]
             res == rproc'.out[n]
             sum == reloaded_count + skipped_past_count + error_count
         IN  /\ rproc'.found = rproc.found
             /\ Len(rproc'.out) = n
             /\ SubSeq(rproc'.out, 1, n - 1) = rproc.out
             /\ res \in {"reloaded", "missed", "error", "exists"}
             /\ res = "exists" => r \in jobs /\ jobs' = jobs /\ store' = store
             /\ res = "reloaded" => r \notin jobs /\ jobs' = jobs \cup {r} /\ store' = store
             /\ res = "missed" => store' = SetStatus(r, "missed") /\ jobs' = jobs
             /\ res = "error" => jobs' = jobs /\ store' = store
             /\ r \notin jobs => res # "exists"
             /\ sum' = sum + (IF res = "exists" THEN 0 ELSE 1)
             /\ sum' <= Len(rproc.found)
             /\ (\A i \in 1..n : rproc'.out[i] # "exists") => sum' = n]_vars

\* C30 witness: a run found two reminders; the pass for the first ended in an
\* error, the second was reloaded all the same, and the counts add up to two.
C30_ErrorThenReloaded ==
    /\ rproc.pc = "loop"
    /\ Len(rproc.found) = 2
    /\ rproc.out = <<"error", "reloaded">>
    /\ rproc.found[2] \in jobs
    /\ reloaded_count + skipped_past_count + error_count = 2

\* C26: the assistant queue never holds two tasks for the same message_id
\* (other than none), and a call that finds a task for its message_id in the
\* queue returns None and adds nothing.
C26_NoDuplicateMessage ==
    /\ [](\A m \in MessageIds \ {0} :
            Cardinality({i \in 1..Len(mq.tasks) : mq.tasks[i].message_id = m}) <= 1)
    /\ [][\A m \in MessageIds \ {0} :
            (/\ enqueue_message(m, "ok")
             /\ \E i \in 1..Len(mq.tasks) : mq.tasks[i].message_id = m) =>
               mq' = [mq EXCEPT !.ret = "None"]]_vars

\* held is the last MEMORY_MESSAGE_LIMIT messages of all (all of them when
\* there are fewer), in the same order.
IsLatest(held, all) ==
    /\ Len(held) = (IF Len(all) > MEMORY_MESSAGE_LIMIT THEN MEMORY_MESSAGE_LIMIT ELSE Len(all))
    /\ \A i \in 1..Len(held) : held[i] = all[Len(all) - Len(held) + i]

\* C27 as stated: the history held for the user, in MongoDB or in the
\* fallback, has at most MEMORY_MESSAGE_LIMIT messages and is the most
\* recently saved messages in the order they were saved.
C27_HistoryLimit ==
    /\ Len(hist.mongo) <= MEMORY_MESSAGE_LIMIT
    /\ Len(hist.memory) <= MEMORY_MESSAGE_LIMIT
    /\ \/ IsLatest(hist.mongo, hist.saved)
       \/ IsLatest(hist.memory, hist.saved)

\* C27, amended: each of the two holds at most MEMORY_MESSAGE_LIMIT messages,
\* the most recent of those that were saved to it, in order; when all saved
\* messages went to the same one, these are the most recently saved of all.
C27_HistoryLimitPerStore ==
    /\ Len(hist.mongo) <= MEMORY_MESSAGE_LIMIT
    /\ Len(hist.memory) <= MEMORY_MESSAGE_LIMIT
    /\ IsLatest(hist.mongo, hist.to_mongo)
    /\ IsLatest(hist.memory, hist.to_memory)
    /\ hist.to_memory = <<>> => IsLatest(hist.mongo, hist.saved)
    /\ hist.to_mongo = <<>> => IsLatest(hist.memory, hist.saved)

\* C27 witness: more messages than the limit went to MongoDB and more than
\* the limit to the fallback, and each holds its last two.
C27_BothTrimmed ==
    /\ Len(hist.to_mongo) > MEMORY_MESSAGE_LIMIT
    /\ Len(hist.to_memory) > MEMORY_MESSAGE_LIMIT
    /\ Len(hist.mongo) = MEMORY_MESSAGE_LIMIT
    /\ Len(hist.memory) = MEMORY_MESSAGE_LIMIT
    /\ hist.mongo[MEMORY_MESSAGE_LIMIT] = hist.to_mongo[Len(hist.to_mongo)]
    /\ hist.memory[MEMORY_MESSAGE_LIMIT] = hist.to_memory[Len(hist.to_memory)]
    /\ \A i \in 1..MEMORY_MESSAGE_LIMIT, j \in 1..MEMORY_MESSAGE_LIMIT :
          hist.mongo[i] # hist.memory[j]

\* C28: of the calls of get_cached_conversation_history for the user that
\* are in progress, at most one is loading the history from the database,
\* also when clear_user_cache ran or the lock entry expired in between.
C28_NoStampede ==
    Cardinality({c \in Callers : cc.call[c].pc = "loading"}) <= 1

====
